---- MODULE Spec2Model ----
(***************************************************************************)
(* Model of the SQLite on-disk format decoder of core/sqlite3_ondisk.rs:   *)
(* read_varint, SerialType::try_from, read_value, read_record,             *)
(* read_btree_cell and read_btree_page.                                    *)
(*                                                                         *)
(* Representation.  A byte is a number in 0..255 and a slice is a sequence *)
(* of bytes (Rust index i is TLA+ index i+1).  A u64 is the set of the     *)
(* positions of its 1 bits (a subset of 0..63), so that `|` is set union   *)
(* and `<<` moves positions; nothing of the 64-bit arithmetic is lost to   *)
(* the model checker's 32-bit integers.  An i64 or f64 is the sequence of  *)
(* its 8 big-endian bytes (two's complement for i64).  A panic (a failed   *)
(* assert!, todo!(), an index or slice out of range, an arithmetic         *)
(* overflow under overflow checks) and an Err returned through `?` are     *)
(* kept apart in every result.                                             *)
(***************************************************************************)
EXTENDS Integers, Sequences, FiniteSets, TLC

VARIABLES
    build,          \* "debug" (overflow checks on) or "release" (off)
    buf,            \* read_varint: the slice handed in
    encoded,        \* read_varint: the u64 the slice was encoded from, or Raw
    varint,         \* read_varint: what the call produced, or Pending
    code,           \* SerialType::try_from: the code handed in
    vbuf,           \* read_value: the slice handed in
    resolved,       \* SerialType::try_from: what the call produced
    decoded,        \* read_value: what the call produced
    rpayload,       \* read_record: the payload handed in
    rec,            \* read_record: its locals and how far the call has come
    pidx,           \* read_btree_page: the page index handed in
    pbuf,           \* read_btree_page: the page buffer as io.get leaves it
    io_ok,          \* read_btree_page: whether io.get returned Ok
    pg,             \* read_btree_page: its locals and how far the call has come
    ctype,          \* read_btree_cell: the page type handed in
    cpos,           \* read_btree_cell: the offset handed in
    cell            \* read_btree_cell: what the call produced

varintVars == <<buf, encoded, varint>>
valueVars == <<code, vbuf, resolved, decoded>>
recordVars == <<rpayload, rec>>
pageVars == <<pidx, pbuf, io_ok, pg>>
cellVars == <<ctype, cpos, cell>>
vars == <<build, varintVars, valueVars, recordVars, pageVars, cellVars>>

----------------------------------------------------------------------------
(* Bounds of the model.                                                    *)

\* Longest raw slice handed to read_varint (11 bytes reach a shift of 70).
MaxVarintLen == 11

\* Largest serial-type code handed to SerialType::try_from.
MaxSerialCode == 19

\* Longest slice handed to read_value.
MaxValueLen == 8

\* Longest payload handed to read_record.
MaxPayloadLen == 5

\* Most cells a page header of the model declares.
MaxCells == 2

\* Longest page buffer handed to read_btree_cell on its own.
MaxCellPage == 5

----------------------------------------------------------------------------
(* Bytes and 64-bit words.                                                 *)

Byte == 0..255

Pow2(k) == 2 ^ k

\* Bit k of a byte.
Bit(byte, k) == (byte \div Pow2(k)) % 2

\* byte & 0x7f, as a u64.
Low7(byte) == {k \in 0..6 : Bit(byte, k) = 1}

\* byte & 0x80 != 0
HighBitSet(byte) == byte >= 128

\* word << shift for a shift below 64: bits moved past bit 63 are lost.
Shl(word, shift) == {k + shift : k \in word} \cap (0..63)

\* The number a set of bit positions stands for (positions below 31 only).
RECURSIVE BitsToNat(_)
BitsToNat(word) ==
    IF word = {} THEN 0
    ELSE LET k == CHOOSE x \in word : TRUE
         IN  Pow2(k) + BitsToNat(word \ {k})

Builds == {"debug", "release"}

Pending == [kind |-> "pending", why |-> "", value |-> {}, nr |-> 0]
Ok(v, n) == [kind |-> "ok", why |-> "", value |-> v, nr |-> n]
Panic(why) == [kind |-> "panic", why |-> why, value |-> {}, nr |-> 0]

----------------------------------------------------------------------------
(* read_varint                                                             *)

\* One pass of the loop of read_varint, from `let byte = buf[i]` on.  The
\* shift amount is an i32 that only grows by 7; `<<` on a u64 with a shift of
\* 64 or more panics when overflow checks are on and masks the shift to its
\* low 6 bits when they are off.
RECURSIVE VarintLoop(_, _, _, _, _)
VarintLoop(b, value, shift, i, bld) ==
    IF i >= Len(b) THEN Panic("index out of bounds")
    ELSE IF shift >= 64 /\ bld = "debug" THEN Panic("shift left with overflow")
    ELSE LET byte == b[i + 1]
             value2 == value \cup Shl(Low7(byte), shift % 64)
         IN  IF ~HighBitSet(byte) THEN Ok(value2, i + 1)
             ELSE VarintLoop(b, value2, shift + 7, i + 1, bld)

read_varint(b, bld) == VarintLoop(b, {}, 0, 0, bld)

----------------------------------------------------------------------------
(* usize                                                                   *)

\* Every usize of the decoder is used only as an index, a length or a
\* counter compared with indexes and lengths, and try_from looks at a code's
\* size and parity only.  A word with a bit at or above bit 28 is therefore
\* kept as Huge plus its parity: larger than every length of the model, with
\* the parity of the word.
Huge == Pow2(28)

AsUsize(word) ==
    IF word \subseteq (0..27) THEN BitsToNat(word)
    ELSE Huge + BitsToNat(word \cap {0})

----------------------------------------------------------------------------
(* SerialType::try_from                                                    *)

SerialTypeOf(tag, n) == [tag |-> tag, n |-> n]
NoSerialType == SerialTypeOf("none", 0)

\* The ten fixed variants, by code.
FixedSerialTypes ==
    <<"Null", "UInt8", "BEInt16", "BEInt24", "BEInt32", "BEInt48", "BEInt64",
      "BEFloat64", "ConstInt0", "ConstInt1">>

Resolved(st) == [kind |-> "ok", why |-> "", st |-> st]
Unresolved(why) == [kind |-> "err", why |-> why, st |-> NoSerialType]

\* impl TryFrom<u64> for SerialType, on AsUsize of the code.
try_from(value) ==
    IF value <= 9 THEN Resolved(SerialTypeOf(FixedSerialTypes[value + 1], 0))
    ELSE IF value > 12 /\ value % 2 = 0
        THEN Resolved(SerialTypeOf("Blob", (value - 12) \div 2))
    ELSE IF value > 13 /\ value % 2 = 1
        THEN Resolved(SerialTypeOf("String", (value - 13) \div 2))
    ELSE Unresolved("Invalid serial type")

----------------------------------------------------------------------------
(* read_value                                                              *)

ValueOf(tag, bytes) == [tag |-> tag, bytes |-> bytes]
NoValue == ValueOf("none", <<>>)

Got(v, n) == [kind |-> "ok", why |-> "", value |-> v, used |-> n]
ValueErr(why) == [kind |-> "err", why |-> why, value |-> NoValue, used |-> 0]
ValuePanic(why) == [kind |-> "panic", why |-> why, value |-> NoValue, used |-> 0]
ValuePending == [kind |-> "pending", why |-> "", value |-> NoValue, used |-> 0]

\* `x as i64` from a narrower signed integer, or iN::from_be_bytes to the
\* full width: the bytes of the i64, big-endian.
Fill(byte, n) == [i \in 1..n |-> byte]
SignExtend(bytes) ==
    Fill(IF bytes[1] >= 128 THEN 255 ELSE 0, 8 - Len(bytes)) \o bytes

\* `x as i64` from an unsigned integer.
ZeroExtend(bytes) == Fill(0, 8 - Len(bytes)) \o bytes

\* buf[0..n]
Take(b, n) == SubSeq(b, 1, n)

\* &buf[pos..]
From(b, pos) == SubSeq(b, pos + 1, Len(b))

\* Whether a byte is a UTF-8 continuation byte in lo..hi.
Cont(b, i, lo, hi) == i <= Len(b) /\ b[i] >= lo /\ b[i] <= hi

\* String::from_utf8 accepts exactly the well-formed UTF-8 sequences.
RECURSIVE IsUtf8(_, _)
IsUtf8(b, i) ==
    IF i > Len(b) THEN TRUE
    ELSE LET c == b[i] IN
        IF c < 128 THEN IsUtf8(b, i + 1)
        ELSE IF c >= 194 /\ c <= 223
            THEN Cont(b, i + 1, 128, 191) /\ IsUtf8(b, i + 2)
        ELSE IF c >= 224 /\ c <= 239
            THEN /\ Cont(b, i + 1, IF c = 224 THEN 160 ELSE 128,
                                   IF c = 237 THEN 159 ELSE 191)
                 /\ Cont(b, i + 2, 128, 191)
                 /\ IsUtf8(b, i + 3)
        ELSE IF c >= 240 /\ c <= 244
            THEN /\ Cont(b, i + 1, IF c = 240 THEN 144 ELSE 128,
                                   IF c = 244 THEN 143 ELSE 191)
                 /\ Cont(b, i + 2, 128, 191)
                 /\ Cont(b, i + 3, 128, 191)
                 /\ IsUtf8(b, i + 4)
        ELSE FALSE

\* The bytes a fixed-width variant indexes: buf[0] .. buf[width - 1].
Width(tag) ==
    CASE tag = "UInt8" -> 1
      [] tag = "BEInt16" -> 2
      [] tag = "BEInt24" -> 3
      [] tag = "BEInt32" -> 4
      [] tag = "BEInt48" -> 6
      [] tag = "BEInt64" -> 8
      [] tag = "BEFloat64" -> 8
      [] OTHER -> 0

read_value(b, st) ==
    CASE st.tag = "Null" -> Got(ValueOf("Null", <<>>), 0)
      [] st.tag = "ConstInt0" -> Got(ValueOf("Integer", Fill(0, 8)), 0)
      [] st.tag = "ConstInt1" -> Got(ValueOf("Integer", Fill(0, 7) \o <<1>>), 0)
      [] st.tag = "Blob" ->
            IF st.n > Len(b) THEN ValuePanic("range end index out of range")
            ELSE Got(ValueOf("Blob", Take(b, st.n)), st.n)
      [] st.tag = "String" ->
            IF st.n > Len(b) THEN ValuePanic("range end index out of range")
            ELSE IF ~IsUtf8(Take(b, st.n), 1) THEN ValueErr("invalid utf-8")
            ELSE Got(ValueOf("Text", Take(b, st.n)), st.n)
      [] OTHER ->
            IF Width(st.tag) > Len(b) THEN ValuePanic("index out of bounds")
            ELSE CASE st.tag = "UInt8" ->
                        Got(ValueOf("Integer", ZeroExtend(Take(b, 1))), 1)
                   [] st.tag = "BEInt16" ->
                        Got(ValueOf("Integer", SignExtend(Take(b, 2))), 2)
                   [] st.tag = "BEInt24" ->
                        Got(ValueOf("Integer", SignExtend(<<0>> \o Take(b, 3))), 3)
                   [] st.tag = "BEInt32" ->
                        Got(ValueOf("Integer", SignExtend(Take(b, 4))), 4)
                   [] st.tag = "BEInt48" ->
                        Got(ValueOf("Integer", <<0, 0>> \o Take(b, 6)), 6)
                   [] st.tag = "BEInt64" ->
                        Got(ValueOf("Integer", Take(b, 8)), 8)
                   [] st.tag = "BEFloat64" ->
                        Got(ValueOf("Float", Take(b, 8)), 8)

----------------------------------------------------------------------------
(* read_record                                                             *)

\* The locals of read_record.
Frame(pos, header_size, serial_types, values) ==
    [pos |-> pos, header_size |-> header_size,
     serial_types |-> serial_types, values |-> values]

NoFrame == Frame(0, 0, <<>>, <<>>)

Go(f) == [kind |-> "go", why |-> "", frame |-> f]
Done(f) == [kind |-> "ok", why |-> "", frame |-> f]
Fail(kind, why, f) == [kind |-> kind, why |-> why, frame |-> f]

\* From `let mut pos = 0` to the `while`.
RecordStart(payload, bld) ==
    LET r == read_varint(payload, bld)
        header_size == AsUsize(r.value)
    IN  IF r.kind = "panic" THEN Fail("panic", r.why, NoFrame)
        ELSE IF ~(header_size >= r.nr)
            THEN Fail("panic", "assert (header_size as usize) >= nr", NoFrame)
        ELSE Go(Frame(r.nr, header_size - r.nr, <<>>, <<>>))

\* HeaderStep without `assert!(header_size >= nr)`: the subtraction is done
\* whatever the varint's length.
HeaderStepUnchecked(payload, f, bld) ==
    IF f.pos > Len(payload)
        THEN Fail("panic", "range start index out of range", f)
    ELSE
    LET r == read_varint(From(payload, f.pos), bld)
        t == try_from(AsUsize(r.value))
        pushed == [f EXCEPT !.serial_types = Append(@, t.st)]
    IN  IF r.kind = "panic" THEN Fail("panic", r.why, f)
        ELSE IF t.kind = "err" THEN Fail("err", t.why, f)
        ELSE IF ~(f.pos + r.nr < Len(payload))
            THEN Fail("panic", "assert pos + nr < payload.len()", pushed)
        ELSE Go([pushed EXCEPT !.pos = @ + r.nr,
                               !.header_size = @ - r.nr])

\* One pass of `while header_size > 0`.
HeaderStep(payload, f, bld) ==
    IF f.pos > Len(payload)
        THEN Fail("panic", "range start index out of range", f)
    ELSE
    LET r == read_varint(From(payload, f.pos), bld)
        t == try_from(AsUsize(r.value))
        pushed == [f EXCEPT !.serial_types = Append(@, t.st)]
    IN  IF r.kind = "panic" THEN Fail("panic", r.why, f)
        ELSE IF t.kind = "err" THEN Fail("err", t.why, f)
        ELSE IF ~(f.pos + r.nr < Len(payload))
            THEN Fail("panic", "assert pos + nr < payload.len()", pushed)
        ELSE IF ~(f.header_size >= r.nr)
            THEN Fail("panic", "assert header_size >= nr",
                      [pushed EXCEPT !.pos = @ + r.nr])
        ELSE Go([pushed EXCEPT !.pos = @ + r.nr,
                               !.header_size = @ - r.nr])

\* One pass of `for serial_type in serial_types`.
ValueStep(payload, f) ==
    IF f.pos > Len(payload)
        THEN Fail("panic", "range start index out of range", f)
    ELSE
    LET st == f.serial_types[Len(f.values) + 1]
        v == read_value(From(payload, f.pos), st)
    IN  IF v.kind # "ok" THEN Fail(v.kind, v.why, f)
        ELSE Go([f EXCEPT !.pos = @ + v.used,
                          !.values = Append(@, v.value)])

RECURSIVE ValueLoop(_, _)
ValueLoop(payload, f) ==
    IF Len(f.values) < Len(f.serial_types)
        THEN LET s == ValueStep(payload, f)
             IN  IF s.kind # "go" THEN s ELSE ValueLoop(payload, s.frame)
    ELSE Done(f)

RECURSIVE HeaderLoop(_, _, _)
HeaderLoop(payload, f, bld) ==
    IF f.header_size > 0
        THEN LET s == HeaderStep(payload, f, bld)
             IN  IF s.kind # "go" THEN s ELSE HeaderLoop(payload, s.frame, bld)
    ELSE ValueLoop(payload, f)

\* The whole call: kind "ok" with frame.values the Record, or "err"/"panic".
read_record(payload, bld) ==
    LET s == RecordStart(payload, bld)
    IN  IF s.kind # "go" THEN s ELSE HeaderLoop(payload, s.frame, bld)

----------------------------------------------------------------------------
(* read_btree_cell                                                         *)

DATABASE_HEADER_SIZE == 100

TableLeafCell(rowid, payload) == [rowid |-> rowid, payload |-> payload]
NoCell == TableLeafCell({}, <<>>)

CellOk(c) == [kind |-> "ok", why |-> "", cell |-> c]
CellPanic(why) == [kind |-> "panic", why |-> why, cell |-> NoCell]

\* impl TryFrom<u8> for PageType: the variant, or "invalid".
PageTypeOf(value) ==
    CASE value = 2 -> "IndexInterior"
      [] value = 5 -> "TableInterior"
      [] value = 10 -> "IndexLeaf"
      [] value = 13 -> "TableLeaf"
      [] OTHER -> "invalid"

\* The TableLeaf arm, from the second read_varint on; at is pos after the
\* first `pos += nr`.
LeafCellRest(page, payload_size, at, bld) ==
    LET r == read_varint(From(page, at), bld)
        start == at + r.nr
        size == AsUsize(payload_size)
    IN  IF r.kind = "panic" THEN CellPanic(r.why)
        ELSE IF start + size > Len(page)
            THEN CellPanic("range end index out of range")
        ELSE CellOk(TableLeafCell(r.value, SubSeq(page, start + 1, start + size)))

read_btree_cell(page, page_type, pos, bld) ==
    IF page_type # "TableLeaf" THEN CellPanic("not yet implemented")
    ELSE IF pos > Len(page) THEN CellPanic("range start index out of range")
    ELSE LET r == read_varint(From(page, pos), bld)
         IN  IF r.kind = "panic" THEN CellPanic(r.why)
             ELSE LeafCellRest(page, r.value, pos + r.nr, bld)

----------------------------------------------------------------------------
(* read_btree_page                                                         *)

BTreePageHeader(page_type, num_cells, right_most_pointer) ==
    [page_type |-> page_type, num_cells |-> num_cells,
     right_most_pointer |-> right_most_pointer]

None == <<>>
Some(bytes) == <<bytes>>

NoHeader == BTreePageHeader("none", 0, None)

\* The locals of read_btree_page: pos, header and cells, and how far the
\* call has come.
PageFrame(pc, kind, why, pos, header, cells, passes) ==
    [pc |-> pc, kind |-> kind, why |-> why, pos |-> pos,
     header |-> header, cells |-> cells, passes |-> passes]

PageNotStarted == PageFrame("start", "running", "", 0, NoHeader, <<>>, 0)
PageFailed(kind, why, f) == [f EXCEPT !.pc = "done", !.kind = kind, !.why = why]

\* u16::from_be_bytes([page[at], page[at + 1]])
U16At(page, at) == page[at + 1] * 256 + page[at + 2]

IsInterior(page_type) == page_type \in {"IndexInterior", "TableInterior"}

\* From buffer_pool.get() to `let mut cells = Vec::new()`.
PageStart(page, page_idx, got, bld) ==
    LET pos == IF page_idx = 1 THEN DATABASE_HEADER_SIZE ELSE 0
        page_type == PageTypeOf(page[pos + 1])
        interior == IsInterior(page_type)
        after == pos + 8 + (IF interior THEN 4 ELSE 0)
    IN  IF ~got THEN PageFailed("err", "io", PageNotStarted)
        ELSE IF pos >= Len(page)
            THEN PageFailed("panic", "index out of bounds", PageNotStarted)
        ELSE IF page_type = "invalid"
            THEN PageFailed("err", "Invalid page type", PageNotStarted)
        ELSE IF after > Len(page)
            THEN PageFailed("panic", "index out of bounds", PageNotStarted)
        ELSE PageFrame("cells", "running", "", after,
                 BTreePageHeader(page_type, U16At(page, pos + 3),
                     IF interior THEN Some(SubSeq(page, pos + 9, pos + 12))
                     ELSE None),
                 <<>>, 0)

\* One pass of `for _ in 0..header.num_cells`.
CellPass(page, f, bld) ==
    LET began == [f EXCEPT !.passes = @ + 1]
    IN
    IF f.pos + 2 > Len(page)
        THEN PageFailed("panic", "index out of bounds", began)
    ELSE
    LET cell_pointer == U16At(page, f.pos)
        moved == [began EXCEPT !.pos = @ + 2]
        c == read_btree_cell(page, f.header.page_type, cell_pointer, bld)
        record == read_record(c.cell.payload, bld)
    IN  IF c.kind # "ok" THEN PageFailed(c.kind, c.why, moved)
        ELSE IF record.kind # "ok" THEN PageFailed(record.kind, record.why, moved)
        ELSE [moved EXCEPT !.cells = Append(@, c.cell)]

----------------------------------------------------------------------------
(* Inputs.                                                                 *)

\* All sequences over S of length at most n.
SeqsUpTo(S, n) == UNION {[1..k -> S] : k \in 0..n}

\* Bytes of the raw slices handed to read_varint: a final byte, a
\* continuation byte with no payload bits, one with all of them.
VarintBytes == {1, 128, 255}

\* The words that are encoded and handed to read_varint: every choice of
\* bits at the edges of the 7-bit groups and of the 8-bit last group.
EdgeBits == {0, 6, 7, 13, 49, 55, 56, 62, 63}
Raw == {-1}

\* The varint of a word in the format read_varint decodes: 7-bit groups,
\* low-order group first, the high bit set on every byte but the last, and
\* at most 9 bytes, the 9th carrying bits 56..63.
Group(word, lo, n) == BitsToNat({k - lo : k \in word \cap (lo..(lo + n - 1))})
Top(word) == IF word = {} THEN 0 ELSE CHOOSE k \in word : \A j \in word : j <= k
EncodedLen(word) == IF Top(word) >= 56 THEN 9 ELSE Top(word) \div 7 + 1
EncodeVarint(word) ==
    LET n == EncodedLen(word)
    IN  [i \in 1..n |->
            IF i = 9 THEN Group(word, 56, 8)
            ELSE Group(word, 7 * (i - 1), 7) + (IF i < n THEN 128 ELSE 0)]

\* Bytes of the slices handed to read_value: 'A', a continuation byte, the
\* lead byte of a two-byte UTF-8 sequence.
ValueBytes == {65, 128, 194}

\* Bytes of the payloads handed to read_record.
PayloadBytes == {0, 1, 2, 3, 8, 10, 129}

\* The cells laid out in the pages handed to read_btree_page (payload
\* size, rowid, payload): a one-column record, a record of one zero-width
\* column, a payload size that runs past the cell, a reserved serial type,
\* a two-byte rowid with a two-column record, and a cut-off varint.
CellTemplates ==
    { <<3, 1, 2, 1, 127>>,
      <<2, 2, 2, 8>>,
      <<5, 1, 2, 8>>,
      <<2, 3, 2, 10>>,
      <<4, 129, 1, 3, 1, 9, 200>>,
      <<129>> }

\* Bytes of the page buffers handed to read_btree_cell on its own.
CellBytes == {1, 2, 3, 129}

\* The page-type bytes of the pages: the four variants and an invalid one.
PageTypeBytes == {2, 5, 7, 10, 13}

\* The 100 bytes of the database header on page 1 ('S' of the magic first).
FileHeaderBytes == <<83>> \o Fill(0, DATABASE_HEADER_SIZE - 1)

RECURSIVE Concat(_, _)
Concat(seqs, k) == IF k = 0 THEN <<>> ELSE Concat(seqs, k - 1) \o seqs[k]

\* A page: the database header on page 1, the b-tree page header, the
\* right-most pointer of an interior page, MaxCells cell pointers, the cells.
\* Pointer choice k in 1..MaxCells is the offset of the k-th cell laid out,
\* 0 is offset 0, MaxCells + 1 is an offset past the page.
MkPage(idx, type_byte, num_cells, ptrs, cs) ==
    LET base == IF idx = 1 THEN FileHeaderBytes ELSE <<>>
        rmp == IF type_byte \in {2, 5} THEN <<0, 0, 0, 3>> ELSE <<>>
        content_start == Len(base) + 8 + Len(rmp) + 2 * MaxCells
        offset(k) ==
            IF k = 0 THEN 0
            ELSE IF k > MaxCells THEN 300
            ELSE content_start + Len(Concat(cs, k - 1))
        pointer(k) == <<offset(k) \div 256, offset(k) % 256>>
    IN  base \o <<type_byte, 0, 0, 0, num_cells, 0, 0, 0>> \o rmp
             \o Concat([j \in 1..MaxCells |-> pointer(ptrs[j])], MaxCells)
             \o Concat(cs, MaxCells)

----------------------------------------------------------------------------
(* The calls, one specification each.                                      *)

RecNotStarted == [pc |-> "start", kind |-> "running", why |-> "", frame |-> NoFrame]

IdleVarint == buf = <<>> /\ encoded = Raw /\ varint = Pending
IdleValue ==
    /\ code = 0 /\ vbuf = <<>>
    /\ resolved = Unresolved("") /\ decoded = ValuePending
IdleRecord == rpayload = <<>> /\ rec = RecNotStarted
IdlePage == pidx = 0 /\ io_ok = FALSE /\ pg = PageNotStarted
CellPending == [kind |-> "pending", why |-> "", cell |-> NoCell]
IdleCell == ctype = "none" /\ cpos = 0 /\ cell = CellPending

\* read_varint on a raw slice or on the encoding of a word.
InitVarint ==
    /\ build \in Builds
    /\ \/ buf \in SeqsUpTo(VarintBytes, MaxVarintLen) /\ encoded = Raw
       \/ encoded \in SUBSET EdgeBits /\ buf = EncodeVarint(encoded)
    /\ varint = Pending
    /\ IdleValue /\ IdleRecord /\ IdlePage /\ pbuf = <<>> /\ IdleCell

ReadVarint ==
    /\ varint.kind = "pending"
    /\ varint' = read_varint(buf, build)
    /\ UNCHANGED <<build, buf, encoded, valueVars, recordVars, pageVars, cellVars>>

NextVarint == ReadVarint
SpecVarint == InitVarint /\ [][NextVarint]_vars

\* SerialType::try_from on a code, then read_value on a slice.
InitValue ==
    /\ build \in Builds
    /\ code \in 0..MaxSerialCode
    /\ vbuf \in SeqsUpTo(ValueBytes, MaxValueLen)
    /\ resolved = [kind |-> "pending", why |-> "", st |-> NoSerialType]
    /\ decoded = ValuePending
    /\ IdleVarint /\ IdleRecord /\ IdlePage /\ pbuf = <<>> /\ IdleCell

Resolve ==
    /\ resolved.kind = "pending"
    /\ resolved' = try_from(code)
    /\ UNCHANGED <<build, code, vbuf, decoded, varintVars, recordVars, pageVars, cellVars>>

ReadValue ==
    /\ resolved.kind = "ok"
    /\ decoded.kind = "pending"
    /\ decoded' = read_value(vbuf, resolved.st)
    /\ UNCHANGED <<build, code, vbuf, resolved, varintVars, recordVars, pageVars, cellVars>>

NextValue == Resolve \/ ReadValue
SpecValue == InitValue /\ [][NextValue]_vars

\* read_record on a payload, a pass of a loop at a time.
RecAt(pc, s) == [pc |-> pc, kind |-> s.kind, why |-> s.why, frame |-> s.frame]

\* Where the call is after a step of the header: at the `while` test with
\* header left, at the `for` over the serial types, or out of the function.
RecAfter(s) ==
    IF s.kind # "go" THEN RecAt("done", s)
    ELSE [pc |-> IF s.frame.header_size > 0 THEN "while" ELSE "for",
          kind |-> "running", why |-> "", frame |-> s.frame]

InitRecord ==
    /\ build \in Builds
    /\ rpayload \in SeqsUpTo(PayloadBytes, MaxPayloadLen)
    /\ rec = RecNotStarted
    /\ IdleVarint /\ IdleValue /\ IdlePage /\ pbuf = <<>> /\ IdleCell

RecStart ==
    /\ rec.pc = "start"
    /\ rec' = RecAfter(RecordStart(rpayload, build))
    /\ UNCHANGED <<build, rpayload, varintVars, valueVars, pageVars, cellVars>>

RecHeader ==
    /\ rec.pc = "while"
    /\ rec' = RecAfter(HeaderStep(rpayload, rec.frame, build))
    /\ UNCHANGED <<build, rpayload, varintVars, valueVars, pageVars, cellVars>>

RecValue ==
    /\ rec.pc = "for"
    /\ Len(rec.frame.values) < Len(rec.frame.serial_types)
    /\ LET s == ValueStep(rpayload, rec.frame)
       IN  rec' = IF s.kind # "go" THEN RecAt("done", s)
                  ELSE [rec EXCEPT !.frame = s.frame]
    /\ UNCHANGED <<build, rpayload, varintVars, valueVars, pageVars, cellVars>>

RecReturn ==
    /\ rec.pc = "for"
    /\ Len(rec.frame.values) = Len(rec.frame.serial_types)
    /\ rec' = RecAt("done", Done(rec.frame))
    /\ UNCHANGED <<build, rpayload, varintVars, valueVars, pageVars, cellVars>>

NextRecord == RecStart \/ RecHeader \/ RecValue \/ RecReturn
SpecRecord == InitRecord /\ [][NextRecord]_vars

\* read_btree_page on a page, a pass of the cell loop at a time.
InitPage ==
    /\ build \in Builds
    /\ pidx \in {1, 2}
    /\ io_ok \in BOOLEAN
    /\ \E type_byte \in PageTypeBytes, num_cells \in 0..MaxCells,
          ptrs \in [1..MaxCells -> 0..(MaxCells + 1)],
          cs \in [1..MaxCells -> CellTemplates] :
            pbuf = MkPage(pidx, type_byte, num_cells, ptrs, cs)
    /\ pg = PageNotStarted
    /\ IdleVarint /\ IdleValue /\ IdleRecord /\ IdleCell

PgStart ==
    /\ pg.pc = "start"
    /\ pg' = PageStart(pbuf, pidx, io_ok, build)
    /\ UNCHANGED <<build, pidx, pbuf, io_ok, varintVars, valueVars, recordVars, cellVars>>

PgCell ==
    /\ pg.pc = "cells"
    /\ pg.passes < pg.header.num_cells
    /\ pg' = CellPass(pbuf, pg, build)
    /\ UNCHANGED <<build, pidx, pbuf, io_ok, varintVars, valueVars, recordVars, cellVars>>

PgReturn ==
    /\ pg.pc = "cells"
    /\ pg.passes = pg.header.num_cells
    /\ pg' = [pg EXCEPT !.pc = "done", !.kind = "ok"]
    /\ UNCHANGED <<build, pidx, pbuf, io_ok, varintVars, valueVars, recordVars, cellVars>>

NextPage == PgStart \/ PgCell \/ PgReturn
SpecPage == InitPage /\ [][NextPage]_vars

\* read_btree_cell on a page buffer, a page type and an offset.
InitCell ==
    /\ build \in Builds
    /\ pbuf \in SeqsUpTo(CellBytes, MaxCellPage)
    /\ ctype \in {"IndexInterior", "TableInterior", "IndexLeaf", "TableLeaf"}
    /\ cpos \in 0..(MaxCellPage + 1)
    /\ cell = CellPending
    /\ IdleVarint /\ IdleValue /\ IdleRecord /\ IdlePage

ReadCell ==
    /\ cell.kind = "pending"
    /\ cell' = read_btree_cell(pbuf, ctype, cpos, build)
    /\ UNCHANGED <<build, ctype, cpos, varintVars, valueVars, recordVars, pageVars>>

NextCell == ReadCell
SpecCell == InitCell /\ [][NextCell]_vars

----------------------------------------------------------------------------
(* The format the claims speak of.                                         *)

\* All 8 bits of a byte, as a u64.
All8(byte) == {k \in 0..7 : Bit(byte, k) = 1}

\* A varint of the format: the low 7 bits of each of the first 8 bytes, the
\* high bit meaning that another byte follows, and all 8 bits of a 9th byte,
\* which ends it.  Kind "cut" when the slice ends inside the varint.
RECURSIVE FormatVarintFrom(_, _, _)
FormatVarintFrom(b, word, i) ==
    IF i >= Len(b) THEN [kind |-> "cut", why |-> "", value |-> {}, nr |-> 0]
    ELSE IF i = 8 THEN Ok(word \cup Shl(All8(b[i + 1]), 56), 9)
    ELSE LET word2 == word \cup Shl(Low7(b[i + 1]), 7 * i)
         IN  IF ~HighBitSet(b[i + 1]) THEN Ok(word2, i + 1)
             ELSE FormatVarintFrom(b, word2, i + 1)

FormatVarint(b) == FormatVarintFrom(b, {}, 0)

\* The storage class of a serial-type code in the format.
FormatSerialType(n) ==
    IF n <= 9 THEN Resolved(SerialTypeOf(FixedSerialTypes[n + 1], 0))
    ELSE IF n \in {10, 11} THEN Unresolved("Invalid serial type")
    ELSE IF n % 2 = 0 THEN Resolved(SerialTypeOf("Blob", (n - 12) \div 2))
    ELSE Resolved(SerialTypeOf("String", (n - 13) \div 2))

\* The bytes a value of a storage class takes.
FormatWidth(st) == IF st.tag \in {"Blob", "String"} THEN st.n ELSE Width(st.tag)

\* The serial-type codes of a record header: the varints that fill bytes
\* at..(h - 1) of the payload exactly.  ok is FALSE when a varint runs past
\* byte h - 1.
RECURSIVE FormatCodes(_, _, _)
FormatCodes(pl, at, h) ==
    IF at >= h THEN [ok |-> TRUE, codes |-> <<>>]
    ELSE LET v == FormatVarint(SubSeq(pl, at + 1, h))
             rest == FormatCodes(pl, at + v.nr, h)
         IN  IF v.kind # "ok" THEN [ok |-> FALSE, codes |-> <<>>]
             ELSE [ok |-> rest.ok, codes |-> <<AsUsize(v.value)>> \o rest.codes]

\* The declared header length of a payload and the length of its varint.
HeaderLength(pl) == AsUsize(FormatVarint(pl).value)
HeaderLengthSize(pl) == FormatVarint(pl).nr

\* The header of a payload is sound: its length varint is whole, declares at
\* least its own length and at most the payload, and serial-type varints
\* fill the rest of the declared length exactly.
HeaderSound(pl) ==
    /\ FormatVarint(pl).kind = "ok"
    /\ HeaderLength(pl) >= HeaderLengthSize(pl)
    /\ HeaderLength(pl) <= Len(pl)
    /\ FormatCodes(pl, HeaderLengthSize(pl), HeaderLength(pl)).ok

HeaderCodes(pl) == FormatCodes(pl, HeaderLengthSize(pl), HeaderLength(pl)).codes
HeaderTypes(pl) == [i \in 1..Len(HeaderCodes(pl)) |-> FormatSerialType(HeaderCodes(pl)[i])]

RECURSIVE SumWidths(_, _)
SumWidths(types, k) ==
    IF k = 0 THEN 0 ELSE SumWidths(types, k - 1) + FormatWidth(types[k].st)

\* The bytes of the i-th value of a well-formed payload.
ValueBytesOf(pl, i) ==
    LET types == HeaderTypes(pl)
        from == HeaderLength(pl) + SumWidths(types, i - 1)
    IN  SubSeq(pl, from + 1, from + FormatWidth(types[i].st))

\* A well-formed record payload: a sound header of valid serial types, then
\* exactly the bytes their values take (text in UTF-8).
WellFormedRecord(pl) ==
    /\ HeaderSound(pl)
    /\ \A i \in 1..Len(HeaderTypes(pl)) : HeaderTypes(pl)[i].kind = "ok"
    /\ HeaderLength(pl) + SumWidths(HeaderTypes(pl), Len(HeaderTypes(pl))) = Len(pl)
    /\ \A i \in 1..Len(HeaderTypes(pl)) :
          HeaderTypes(pl)[i].st.tag = "String" => IsUtf8(ValueBytesOf(pl, i), 1)

\* The values of a well-formed payload: one per serial type, in header
\* order, each decoded from its own bytes.
ExpectedValues(pl) ==
    [i \in 1..Len(HeaderTypes(pl)) |->
        read_value(ValueBytesOf(pl, i), HeaderTypes(pl)[i].st).value]

\* The table-leaf cell at an offset of a page: where its payload starts,
\* the declared payload size, the rowid; whole when both varints are.
CellSizeVarint(pg_bytes, at) == FormatVarint(From(pg_bytes, at))
CellRowidVarint(pg_bytes, at) ==
    FormatVarint(From(pg_bytes, at + CellSizeVarint(pg_bytes, at).nr))
CellVarintsWhole(pg_bytes, at) ==
    /\ at <= Len(pg_bytes)
    /\ CellSizeVarint(pg_bytes, at).kind = "ok"
    /\ CellRowidVarint(pg_bytes, at).kind = "ok"
CellPayloadStart(pg_bytes, at) ==
    at + CellSizeVarint(pg_bytes, at).nr + CellRowidVarint(pg_bytes, at).nr
CellPayloadSize(pg_bytes, at) == AsUsize(CellSizeVarint(pg_bytes, at).value)
CellFits(pg_bytes, at) ==
    CellPayloadStart(pg_bytes, at) + CellPayloadSize(pg_bytes, at) <= Len(pg_bytes)
FormatCell(pg_bytes, at) ==
    TableLeafCell(CellRowidVarint(pg_bytes, at).value,
        SubSeq(pg_bytes, CellPayloadStart(pg_bytes, at) + 1,
               CellPayloadStart(pg_bytes, at) + CellPayloadSize(pg_bytes, at)))
WellFormedCell(pg_bytes, at) ==
    /\ CellVarintsWhole(pg_bytes, at)
    /\ CellFits(pg_bytes, at)
    /\ WellFormedRecord(FormatCell(pg_bytes, at).payload)

\* Where the b-tree page header of a page starts, and the i-th entry of
\* the cell pointer array of a leaf page.
HeaderStart(idx) == IF idx = 1 THEN 100 ELSE 0
PointerEntry(pg_bytes, idx, i) == U16At(pg_bytes, HeaderStart(idx) + 8 + 2 * (i - 1))

\* A well-formed table-leaf page: its header and pointer array lie in the
\* page and every pointer entry names a well-formed cell.
WellFormedLeafPage(pg_bytes, idx) ==
    /\ Len(pg_bytes) >= HeaderStart(idx) + 8
    /\ pg_bytes[HeaderStart(idx) + 1] = 13
    /\ LET n == U16At(pg_bytes, HeaderStart(idx) + 3)
       IN  /\ Len(pg_bytes) >= HeaderStart(idx) + 8 + 2 * n
           /\ \A i \in 1..n : WellFormedCell(pg_bytes, PointerEntry(pg_bytes, idx, i))

----------------------------------------------------------------------------
(* The claims.                                                             *)

\* C1: read_varint never examines more than 9 bytes: whenever it reports a
\* byte count the count is between 1 and 9, and on every slice that holds a
\* whole varint of the format (the low 7 bits of each of the first 8 bytes,
\* all 8 bits of a 9th byte, which always ends the decode) it returns that
\* varint's value and length.
C1_VarintWithinNineBytes ==
    varint.kind # "pending" =>
        /\ varint.kind = "ok" => varint.nr \in 1..9
        /\ FormatVarint(buf).kind = "ok" => varint = FormatVarint(buf)

\* C2: varint round trip: read_varint on the encoding of a word v returns
\* (v, n) with n the minimal encoded length (1 below 0x80, at most 9).
C2_VarintRoundTrip ==
    (encoded # Raw /\ varint.kind # "pending") =>
        varint = Ok(encoded, EncodedLen(encoded))

\* The integers narrower than 64 bits, and the i64 that is the two's
\* complement value of big-endian stored bytes.
NarrowIntegers == {"UInt8", "BEInt16", "BEInt24", "BEInt32", "BEInt48"}
TwosComplement(stored) ==
    [i \in 1..8 |->
        IF i > 8 - Len(stored) THEN stored[i - (8 - Len(stored))]
        ELSE IF stored[1] >= 128 THEN 255 ELSE 0]

\* C3: read_value sign-extends every integer narrower than 64 bits: the
\* Integer returned is the two's-complement value of the big-endian stored
\* bytes, negative when the top stored bit is 1.
C3_IntegersSignExtended ==
    (decoded.kind = "ok" /\ resolved.st.tag \in NarrowIntegers) =>
        decoded.value =
            ValueOf("Integer", TwosComplement(Take(vbuf, Width(resolved.st.tag))))

\* C4: the serial type of a code is fixed by the format: 0 to 9 the ten
\* fixed classes, every even code from 12 on Blob((n-12)/2), every odd code
\* from 13 on String((n-13)/2), and only 10 and 11 fail.
C4_SerialTypeByCode ==
    resolved.kind # "pending" =>
        /\ resolved.kind = FormatSerialType(code).kind
        /\ resolved.st = FormatSerialType(code).st

\* C5: read_record on a well-formed payload returns one value per serial
\* type of the header, in header order, each decoded from the consecutive
\* bytes that follow the header; payloads of zero-width columns only, such as
\* [0x02, 0x08], included.
C5_WellFormedRecordDecodes ==
    (rec.pc = "done" /\ WellFormedRecord(rpayload)) =>
        /\ rec.kind = "ok"
        /\ rec.frame.values = ExpectedValues(rpayload)

\* C6: read_btree_cell on a table-leaf cell whose declared payload runs
\* past the end of the page returns an OutOfBounds error; when the payload
\* fits, the cell returned holds the rowid and exactly the payload_size
\* bytes that follow the two varints.
C6_CellPayloadBounds ==
    (cell.kind # "pending" /\ ctype = "TableLeaf" /\ CellVarintsWhole(pbuf, cpos)) =>
        IF CellFits(pbuf, cpos) THEN cell = CellOk(FormatCell(pbuf, cpos))
        ELSE cell.kind = "err" /\ cell.why = "OutOfBounds"

\* C7: decoding a cell of a TableInterior, IndexLeaf or IndexInterior page
\* ends with an unsupported-cell-variant error returned to the caller (so
\* does read_btree_page on such a page with a cell count above 0), not with
\* a panic and not with a page returned.
C7_UnsupportedCellIsAnError ==
    (/\ pg.pc = "done"
     /\ pg.header.page_type \in {"TableInterior", "IndexLeaf", "IndexInterior"}
     /\ pg.header.num_cells > 0) =>
        pg.kind = "err" /\ pg.why = "UnsupportedCellVariant"

\* C8: read_btree_page reads the page header at byte 100 of page 1 and at
\* byte 0 of every other page, starts the cell pointer array 8 bytes after
\* the header start on a leaf page and 12 on an interior page, and returns,
\* for a table-leaf page of n well-formed cells, exactly the n cells at the
\* offsets of the pointer entries, in pointer-array order.
C8_PageLayoutAndOrder ==
    /\ pg.header # NoHeader =>
          /\ pg.header.page_type = PageTypeOf(pbuf[HeaderStart(pidx) + 1])
          /\ pg.header.num_cells = U16At(pbuf, HeaderStart(pidx) + 3)
    /\ (pg.pc = "cells" /\ pg.passes = 0) =>
          pg.pos = HeaderStart(pidx)
                     + (IF IsInterior(pg.header.page_type) THEN 12 ELSE 8)
    /\ (pg.pc = "done" /\ io_ok /\ WellFormedLeafPage(pbuf, pidx)) =>
          /\ pg.kind = "ok"
          /\ Len(pg.cells) = pg.header.num_cells
          /\ \A i \in 1..Len(pg.cells) :
                pg.cells[i] = FormatCell(pbuf, PointerEntry(pbuf, pidx, i))

\* With C8: the same on the pages whose cells' payloads read_record
\* decodes, where the layout and the order of the cells are as stated.
RecordsDecode(pg_bytes, idx, bld) ==
    \A i \in 1..U16At(pg_bytes, HeaderStart(idx) + 3) :
        read_record(FormatCell(pg_bytes, PointerEntry(pg_bytes, idx, i)).payload,
                    bld).kind = "ok"
PageLayoutWhenRecordsDecode ==
    /\ pg.header # NoHeader =>
          /\ pg.header.page_type = PageTypeOf(pbuf[HeaderStart(pidx) + 1])
          /\ pg.header.num_cells = U16At(pbuf, HeaderStart(pidx) + 3)
    /\ (pg.pc = "cells" /\ pg.passes = 0) =>
          pg.pos = HeaderStart(pidx)
                     + (IF IsInterior(pg.header.page_type) THEN 12 ELSE 8)
    /\ (/\ pg.pc = "done" /\ io_ok /\ WellFormedLeafPage(pbuf, pidx)
        /\ RecordsDecode(pbuf, pidx, build)) =>
          /\ pg.kind = "ok"
          /\ Len(pg.cells) = pg.header.num_cells
          /\ \A i \in 1..Len(pg.cells) :
                pg.cells[i] = FormatCell(pbuf, PointerEntry(pbuf, pidx, i))

\* C9: a record header overrun is rejected: the remaining header length of
\* read_record is never below zero, a payload whose header is not sound (a
\* header length below the size of its own varint, a serial-type varint that
\* runs past the declared header length) makes read_record fail, and a
\* Record is returned only with one value per serial type of a header that
\* was consumed to exactly its declared length.
C9_HeaderOverrunRejected ==
    /\ rec.frame.header_size >= 0
    /\ (rec.pc = "done" /\ ~HeaderSound(rpayload)) => rec.kind \in {"err", "panic"}
    /\ (rec.pc = "done" /\ rec.kind = "ok") =>
          /\ rec.frame.header_size = 0
          /\ Len(rec.frame.values) = Len(HeaderCodes(rpayload))
          /\ rec.frame.serial_types =
                [i \in 1..Len(HeaderCodes(rpayload)) |->
                    try_from(HeaderCodes(rpayload)[i]).st]

\* A serial-type varint runs past the declared header length and the call
\* has failed on the check of the remaining header length.
C9_OverrunCaught ==
    /\ rec.pc = "done"
    /\ FormatVarint(rpayload).kind = "ok"
    /\ HeaderLength(rpayload) >= HeaderLengthSize(rpayload)
    /\ HeaderLength(rpayload) <= Len(rpayload)
    /\ ~HeaderSound(rpayload)
    /\ rec.kind = "panic"
    /\ rec.why = "assert header_size >= nr"

\* C10: every decode ends, and on a well-formed page the cell loop of
\* read_btree_page has run exactly cell_count times when it does:
\* read_btree_page is at its start, in its cell loop with at most
\* cell_count passes made (so that a pass or the return is its next step) or
\* out of the function, and it leaves a well-formed table-leaf page after
\* cell_count passes.
C10_PageDecodeEndsAfterCellCountPasses ==
    /\ pg.pc \in {"start", "cells", "done"}
    /\ pg.pc = "cells" => pg.passes <= pg.header.num_cells
    /\ (pg.pc = "done" /\ io_ok /\ WellFormedLeafPage(pbuf, pidx)) =>
          pg.passes = pg.header.num_cells

\* With C10: the cell loop never makes more than cell_count passes, and
\* makes exactly that many whenever a page is returned.
CellLoopBounded ==
    /\ pg.passes <= pg.header.num_cells
    /\ (pg.pc = "done" /\ pg.kind = "ok") =>
          pg.passes = pg.header.num_cells /\ Len(pg.cells) = pg.header.num_cells

\* With C10: every pass of the header loop of read_record that goes on
\* consumes at least one byte and leaves less header to read.
HeaderLoopDecreases ==
    [][(rec.pc = "while" /\ rec'.pc # "done") =>
          /\ rec'.frame.pos > rec.frame.pos
          /\ rec'.frame.header_size < rec.frame.header_size]_vars

\* With C10: read_record is at its start, at one of its two loops or out
\* of the function, and its position stays within the payload.
RecordDecodeGoesOn ==
    /\ rec.pc \in {"start", "while", "for", "done"}
    /\ rec.pc = "while" => rec.frame.header_size > 0
    /\ rec.pc = "for" => Len(rec.frame.values) <= Len(rec.frame.serial_types)
    /\ rec.frame.pos <= Len(rpayload)

====
